---- MODULE Spec2Model ----
(***************************************************************************)
(* Model of plugins/sql/src/decode/postgres.rs: the column decoder to_json *)
(* and the tsvector binary parser / renderer (TsVector::try_from,          *)
(* TsVector::to_string, LexemeMeta::from).                                 *)
(*                                                                         *)
(* Rust Strings are sequences of Unicode code points, byte slices are      *)
(* sequences of 0..255.  A serde_json Value is [t, val] with t the variant *)
(* name and val a sequence of integers (the payload).                      *)
(***************************************************************************)
EXTENDS Integers, Sequences, FiniteSets, TLC

VARIABLES v, pc, res, calls, reader, num_lexemes, words, word, num_positions, positions, parsed, harness, packed, meta

vars == <<v, pc, res, calls, reader, num_lexemes, words, word, num_positions, positions, parsed, harness, packed, meta>>

\* ---------------------------------------------------------------- bounds
\* longest byte content enumerated exhaustively on the dispatcher paths
MaxBytesLen == 2
\* longest tail (bytes after the 4-byte lexeme count) enumerated exhaustively
MaxTail == 6
\* largest lexeme count written in the 4-byte prefix of an enumerated input
MaxLexemeCount == 2
\* longest run of trailing bytes appended to an encoded vector
MaxTrailing == 1

\* the byte values inputs are built from: the terminator, a control
\* character, 'a', a UTF-8 continuation byte and a UTF-8 lead byte; as the
\* high byte of a packed position they give weights 0, 0, 1, 2 and 3
Alphabet == {0, 1, 97, 169, 195}

\* ---------------------------------------------------------- serde_json
JNull == [t |-> "Null", val |-> <<>>]

JBool(b) == [t |-> "Bool", val |-> <<IF b THEN 1 ELSE 0>>]

JNumber(n) == [t |-> "Number", val |-> <<n>>]

JString(s) == [t |-> "String", val |-> s]

JArray(a) == [t |-> "Array", val |-> a]

Ok(j) == [ok |-> TRUE, json |-> j, err |-> "", name |-> ""]

Err(kind, name) == [ok |-> FALSE, json |-> JNull, err |-> kind, name |-> name]

\* ------------------------------------------------------------- std: UTF-8
IsCont(b, i) == i <= Len(b) /\ b[i] >= 128 /\ b[i] <= 191

\* the second byte of a multi-byte sequence, with the ranges that exclude
\* overlong forms, surrogates and code points above U+10FFFF
SecondOk(b, i) ==
  /\ i + 1 <= Len(b)
  /\ LET x == b[i]
         y == b[i + 1]
     IN  CASE x = 224 -> y >= 160 /\ y <= 191
           [] x = 237 -> y >= 128 /\ y <= 159
           [] x = 240 -> y >= 144 /\ y <= 191
           [] x = 244 -> y >= 128 /\ y <= 143
           [] OTHER -> y >= 128 /\ y <= 191

\* decode the scalar value starting at byte i: ok, the bytes it takes and its
\* code point; when invalid, n is the length of the maximal invalid prefix
Utf8Next(b, i) ==
  LET x == b[i]
  IN  CASE x < 128 -> [ok |-> TRUE, n |-> 1, cp |-> x]
        [] x >= 194 /\ x <= 223 ->
             IF SecondOk(b, i)
             THEN [ok |-> TRUE, n |-> 2, cp |-> (x - 192) * 64 + (b[i + 1] - 128)]
             ELSE [ok |-> FALSE, n |-> 1, cp |-> 65533]
        [] x >= 224 /\ x <= 239 ->
             IF ~SecondOk(b, i) THEN [ok |-> FALSE, n |-> 1, cp |-> 65533]
             ELSE IF ~IsCont(b, i + 2) THEN [ok |-> FALSE, n |-> 2, cp |-> 65533]
             ELSE [ok |-> TRUE, n |-> 3,
                   cp |-> (x - 224) * 4096 + (b[i + 1] - 128) * 64 + (b[i + 2] - 128)]
        [] x >= 240 /\ x <= 244 ->
             IF ~SecondOk(b, i) THEN [ok |-> FALSE, n |-> 1, cp |-> 65533]
             ELSE IF ~IsCont(b, i + 2) THEN [ok |-> FALSE, n |-> 2, cp |-> 65533]
             ELSE IF ~IsCont(b, i + 3) THEN [ok |-> FALSE, n |-> 3, cp |-> 65533]
             ELSE [ok |-> TRUE, n |-> 4,
                   cp |-> (x - 240) * 262144 + (b[i + 1] - 128) * 4096
                          + (b[i + 2] - 128) * 64 + (b[i + 3] - 128)]
        [] OTHER -> [ok |-> FALSE, n |-> 1, cp |-> 65533]

RECURSIVE Utf8From(_, _)
Utf8From(b, i) ==
  IF i > Len(b) THEN [ok |-> TRUE, s |-> <<>>]
  ELSE LET d == Utf8Next(b, i)
       IN  IF ~d.ok THEN [ok |-> FALSE, s |-> <<>>]
           ELSE LET r == Utf8From(b, i + d.n)
                IN  IF r.ok THEN [ok |-> TRUE, s |-> <<d.cp>> \o r.s] ELSE r

\* String::from_utf8: the string, or an error on the first invalid sequence
from_utf8(b) == Utf8From(b, 1)

RECURSIVE LossyFrom(_, _)
LossyFrom(b, i) ==
  IF i > Len(b) THEN <<>>
  ELSE LET d == Utf8Next(b, i) IN <<d.cp>> \o LossyFrom(b, i + d.n)

\* String::from_utf8_lossy: each maximal invalid sequence becomes U+FFFD
from_utf8_lossy(b) == LossyFrom(b, 1)

\* the terminator left on the word
trim_end_matches_none(s, c) == s

RECURSIVE trim_end_matches(_, _)
trim_end_matches(s, c) ==
  IF Len(s) > 0 /\ s[Len(s)] = c THEN trim_end_matches(SubSeq(s, 1, Len(s) - 1), c) ELSE s

RECURSIVE Decimal(_)
\* Display of an unsigned integer: its decimal digits
Decimal(n) == IF n < 10 THEN <<48 + n>> ELSE Decimal(n \div 10) \o <<48 + (n % 10)>>

\* ------------------------------------------------- std::io::Cursor reads
\* reader is the cursor position: the number of bytes already consumed

\* a u32 as its two 16-bit halves, hi * 65536 + lo
U32(hi, lo) == [hi |-> hi, lo |-> lo]

\* n < u for a natural n below 65536 and a u32 u
LessU32(n, u) == u.hi > 0 \/ n < u.lo

\* ReadBytesExt::read_u32::<BigEndian>
read_u32(b, p) ==
  IF p + 4 > Len(b) THEN [ok |-> FALSE, val |-> U32(0, 0), pos |-> p]
  ELSE [ok |-> TRUE, pos |-> p + 4,
        val |-> U32(b[p + 1] * 256 + b[p + 2], b[p + 3] * 256 + b[p + 4])]

\* ReadBytesExt::read_u16::<BigEndian>
read_u16(b, p) ==
  IF p + 2 > Len(b) THEN [ok |-> FALSE, val |-> 0, pos |-> p]
  ELSE [ok |-> TRUE, pos |-> p + 2, val |-> b[p + 1] * 256 + b[p + 2]]

RECURSIVE DelimEnd(_, _, _)
\* the position after the first delim at or after p, or the end of input
DelimEnd(b, p, delim) ==
  IF p >= Len(b) THEN Len(b)
  ELSE IF b[p + 1] = delim THEN p + 1
  ELSE DelimEnd(b, p + 1, delim)

\* BufRead::read_until: the bytes up to and including delim (or up to the end
\* of input when there is none); it does not fail on an in-memory cursor
read_until(b, p, delim) ==
  LET e == DelimEnd(b, p, delim)
  IN  [buf |-> SubSeq(b, p + 1, e), pos |-> e]

\* ------------------------------------------------------------ LexemeMeta
\* the weight taken one bit too low
LexemeMeta_from_shift13(value) ==
  [weight |-> (value \div 8192) % 4, position |-> value % 16384]

LexemeMeta_from(value) ==
  [weight |-> (value \div 16384) % 4, position |-> value % 16384]

\* ---------------------------------------------------- TsVector::to_string
RECURSIVE join(_, _)
join(parts, sep) ==
  IF Len(parts) = 0 THEN <<>>
  ELSE IF Len(parts) = 1 THEN parts[1]
  ELSE parts[1] \o sep \o join(Tail(parts), sep)

\* weight_char.unwrap_or_default(): the letter, or char::default() = U+0000
weight_char(m) ==
  CASE m.weight = 3 -> 65
    [] m.weight = 2 -> 66
    [] m.weight = 1 -> 67
    [] OTHER -> 0

format_meta(m) == Decimal(m.position) \o <<weight_char(m)>>

format_lexeme(lexeme) ==
  LET ps == join([k \in 1..Len(lexeme.positions) |-> format_meta(lexeme.positions[k])], <<44>>)
  IN  IF Len(ps) = 0 THEN <<39>> \o lexeme.word \o <<39>>
      ELSE <<39>> \o lexeme.word \o <<39, 58>> \o ps

to_string(ws) == join([k \in 1..Len(ws) |-> format_lexeme(ws[k])], <<32>>)

\* ------------------------------------------------------------- the inputs
RECURSIVE SeqsUpTo(_, _)
\* every sequence over S of length at most n
SeqsUpTo(S, n) ==
  IF n = 0 THEN {<<>>}
  ELSE LET shorter == SeqsUpTo(S, n - 1)
       IN  shorter \cup {Append(s, x) : s \in {t \in shorter : Len(t) = n - 1}, x \in S}

BE16(n) == <<n \div 256, n % 256>>

BE32(n) == <<n \div 16777216, (n \div 65536) % 256, (n \div 256) % 256, n % 256>>

TextNames == {"CHAR", "VARCHAR", "TEXT", "NAME"}

FloatNames == {"FLOAT4", "FLOAT8"}

IntNames == {"INT2", "INT4", "INT8"}

TemporalNames == {"DATE", "TIME", "TIMESTAMP", "TIMESTAMPTZ"}

JsonNames == {"JSON", "JSONB"}

\* the names of the match arms that call try_decode
DecodedNames ==
  TextNames \cup FloatNames \cup IntNames \cup {"BOOL"} \cup TemporalNames
    \cup JsonNames \cup {"BYTEA"}

\* every name with an arm of its own
RecognizedNames == DecodedNames \cup {"VOID", "tsvector"}

\* names the match does not list; the match is exact and case-sensitive
OtherNames == {"citext", "mood", "TSVECTOR"}

Names == RecognizedNames \cup OtherNames

Hello == <<104, 101, 108, 108, 111>>

Green == <<103, 114, 101, 101, 110>>

Purple == <<112, 117, 114, 112, 108, 101>>

Colors == {<<114, 101, 100>>, Green, <<98, 108, 117, 101>>}

\* variants spelled with the code points the alphabet decodes to
Marks == {<<97>>, <<233>>, <<65533>>, <<97, 65533>>}

\* PgTypeKind: Enum carries its variants, every other kind is opaque here
Kinds ==
  { [tag |-> "Simple", variants |-> {}], [tag |-> "Domain", variants |-> {}],
    [tag |-> "Enum", variants |-> Colors], [tag |-> "Enum", variants |-> Marks] }

Failed == [ok |-> FALSE, ty |-> "", val |-> <<>>]

Decoded(ty, val) == [ok |-> TRUE, ty |-> ty, val |-> val]

\* what try_decode::<T>() may return for the T of each arm
DecodeOutcomes(name) ==
  {Failed} \cup
  ( CASE name \in FloatNames -> {Decoded("finite", <<3>>), Decoded("nan", <<>>)}
      [] name = "INT2" -> {Decoded("int", <<-32768>>), Decoded("int", <<32767>>)}
      [] name = "INT4" -> {Decoded("int", <<-2147483647>>), Decoded("int", <<0>>)}
      [] name = "INT8" -> {Decoded("int", <<-1>>), Decoded("int", <<2147483647>>)}
      [] name = "BOOL" -> {Decoded("bool", <<0>>), Decoded("bool", <<1>>)}
      [] name \in TemporalNames -> {Decoded("display", <<50, 48, 50, 51>>)}
      [] name \in JsonNames ->
           { Decoded("Null", <<>>), Decoded("Bool", <<1>>), Decoded("Number", <<7>>),
             Decoded("String", Hello), Decoded("Array", <<1, 2>>),
             Decoded("Object", <<97, 1>>) }
      [] name = "BYTEA" -> {Decoded("bytes", <<1, 2, 255>>), Decoded("bytes", <<>>)}
      [] OTHER -> {Decoded("string", Hello), Decoded("string", <<>>)} )

\* byte contents on the dispatcher paths
DispatchBytes(n) ==
  SeqsUpTo(Alphabet, n)
    \cup {Green, Purple, Hello, BE32(0), BE32(5),
          BE32(1) \o <<99, 97, 116, 0>> \o BE16(2) \o BE16(49153) \o BE16(5)}

\* what as_bytes() may return
BytesOutcomes ==
  {[ok |-> FALSE, val |-> <<>>]} \cup {[ok |-> TRUE, val |-> b] : b \in DispatchBytes(MaxBytesLen)}

\* a column value as to_json sees it
Value(n, nm, k, b, d) == [isNull |-> n, name |-> nm, kind |-> k, bytes |-> b, decode |-> d]

\* the lexeme counts of the enumerated tsvector contents: 0..MaxLexemeCount
\* and 195 * 2^24
CountPrefixes == {BE32(n) : n \in 0..MaxLexemeCount} \cup {<<195, 0, 0, 0>>}

Meta(w, p) == [weight |-> w, position |-> p]

Lex(w, ps) == [word |-> w, positions |-> ps]

\* lexemes the test harness encodes: "cat" at 1A and 5, "a" without
\* positions, "é" at 16383B, the empty word at 0C and 10
HarnessLexemes ==
  { Lex(<<99, 97, 116>>, <<Meta(3, 1), Meta(0, 5)>>), Lex(<<97>>, <<>>),
    Lex(<<233>>, <<Meta(2, 16383)>>), Lex(<<>>, <<Meta(1, 0), Meta(0, 10)>>) }

\* most lexemes in an encoded vector
MaxLexemes == 2

RECURSIVE Flatten(_)
Flatten(ss) == IF Len(ss) = 0 THEN <<>> ELSE ss[1] \o Flatten(Tail(ss))

\* UTF-8 of a code point below U+0800
Utf8Bytes(cp) == IF cp < 128 THEN <<cp>> ELSE <<192 + (cp \div 64), 128 + (cp % 64)>>

EncodeMeta(m) == BE16(m.weight * 16384 + m.position)

EncodeLexeme(l) ==
  Flatten([k \in 1..Len(l.word) |-> Utf8Bytes(l.word[k])]) \o <<0>>
    \o BE16(Len(l.positions))
    \o Flatten([k \in 1..Len(l.positions) |-> EncodeMeta(l.positions[k])])

\* the wire layout: lexeme count, then each lexeme
Encode(vec) == BE32(Len(vec)) \o Flatten([k \in 1..Len(vec) |-> EncodeLexeme(vec[k])])

NoVector == [enc |-> FALSE, vec |-> <<>>]

TsValue(b) ==
  Value(FALSE, "tsvector", [tag |-> "Simple", variants |-> {}], [ok |-> TRUE, val |-> b], Failed)

NoResult == Err("pending", "")

NotParsed == [ok |-> FALSE, err |-> "pending"]

InitWith(x, h) ==
  /\ v = x
  /\ harness = h
  /\ pc = "start"
  /\ res = NoResult
  /\ calls = <<>>
  /\ reader = 0
  /\ num_lexemes = U32(0, 0)
  /\ words = <<>>
  /\ word = <<>>
  /\ num_positions = 0
  /\ positions = <<>>
  /\ parsed = NotParsed
  /\ packed = 0
  /\ meta = LexemeMeta_from(0)

\* every combination on the dispatcher paths; tsvector contents too short to
\* hold a lexeme count and every tail after a lexeme count; encoded vectors
\* with and without bytes after them
Init ==
  \/ \E nm \in Names, n \in BOOLEAN, k \in Kinds, b \in BytesOutcomes :
       \E d \in DecodeOutcomes(nm) : InitWith(Value(n, nm, k, b, d), NoVector)
  \/ \E b \in SeqsUpTo(Alphabet, 3) : InitWith(TsValue(b), NoVector)
  \/ \E p \in CountPrefixes, t \in SeqsUpTo(Alphabet, MaxTail) :
       InitWith(TsValue(p \o t), NoVector)
  \/ \E vec \in SeqsUpTo(HarnessLexemes, MaxLexemes), t \in SeqsUpTo(Alphabet, MaxTrailing) :
       InitWith(TsValue(Encode(vec) \o t), [enc |-> TRUE, vec |-> vec])

\* ------------------------------------------------- to_json: scalar arms
\* a failed text decode turned into the empty string
text_arm_empty(x) == IF x.decode.ok THEN JString(x.decode.val) ELSE JString(<<>>)

text_arm(x) == IF x.decode.ok THEN JString(x.decode.val) ELSE JNull

\* JsonValue::from(f32 / f64) is Null for a NaN or an infinity
float_arm(x) ==
  IF x.decode.ok /\ x.decode.ty = "finite" THEN JNumber(x.decode.val[1]) ELSE JNull

int_arm(x) == IF x.decode.ok THEN JNumber(x.decode.val[1]) ELSE JNull

bool_arm(x) == IF x.decode.ok THEN JBool(x.decode.val[1] = 1) ELSE JNull

\* the decoded date or time carries its Display text
temporal_arm(x) == IF x.decode.ok THEN JString(x.decode.val) ELSE JNull

\* try_decode::<JsonValue>().unwrap_or_default(): the decoded value as it is
\* a failed JSON decode turned into an empty object
json_arm_object(x) ==
  IF x.decode.ok THEN [t |-> x.decode.ty, val |-> x.decode.val] ELSE [t |-> "Object", val |-> <<>>]

json_arm(x) == IF x.decode.ok THEN [t |-> x.decode.ty, val |-> x.decode.val] ELSE JNull

bytea_arm(x) == IF x.decode.ok THEN JArray(x.decode.val) ELSE JNull

scalar_arm(x) ==
  CASE x.name \in TextNames -> text_arm(x)
    [] x.name \in FloatNames -> float_arm(x)
    [] x.name \in IntNames -> int_arm(x)
    [] x.name = "BOOL" -> bool_arm(x)
    [] x.name \in TemporalNames -> temporal_arm(x)
    [] x.name \in JsonNames -> json_arm(x)
    [] x.name = "BYTEA" -> bytea_arm(x)

\* ------------------------------------------- to_json: the unlisted names
\* the enum arm reporting a failed extraction the way the fallback arm does
enum_arm_unsupported(x) ==
  IF ~x.bytes.ok THEN Err("UnsupportedDatatype", x.name)
  ELSE LET raw_str == from_utf8_lossy(x.bytes.val)
       IN  IF raw_str \in x.kind.variants THEN Ok(JString(raw_str)) ELSE Ok(JNull)

\* the enum arm without the membership test
enum_arm_unchecked(x) ==
  IF ~x.bytes.ok THEN Err("Decode", "") ELSE Ok(JString(from_utf8_lossy(x.bytes.val)))

enum_arm(x) ==
  IF ~x.bytes.ok THEN Err("Decode", "")
  ELSE LET raw_str == from_utf8_lossy(x.bytes.val)
       IN  IF raw_str \in x.kind.variants THEN Ok(JString(raw_str)) ELSE Ok(JNull)

\* the fallback arm returning the lossy text it logs
fallback_arm_lossy(x) ==
  IF ~x.bytes.ok THEN Err("UnsupportedDatatype", x.name)
  ELSE Ok(JString(from_utf8_lossy(x.bytes.val)))

fallback_arm(x) ==
  IF ~x.bytes.ok THEN Err("UnsupportedDatatype", x.name)
  ELSE IF x.decode.ok THEN Ok(JString(x.decode.val)) ELSE Ok(JNull)

\* the parser's locals and the unpack scratch are not touched
ParserIdle == UNCHANGED <<reader, num_lexemes, words, word, num_positions, positions, parsed, packed, meta>>

Finish(r, cs) ==
  /\ res' = r
  /\ calls' = calls \o cs
  /\ pc' = "done"
  /\ UNCHANGED <<v, harness>>
  /\ ParserIdle

\* the null check left out
is_null_skipped(x) == FALSE

is_null(x) == x.isNull

\* if v.is_null() { return Ok(JsonValue::Null) }
NullValue ==
  /\ pc = "start"
  /\ is_null(v)
  /\ Finish(Ok(JNull), <<>>)

ScalarArm ==
  /\ pc = "start"
  /\ ~is_null(v)
  /\ v.name \in DecodedNames
  /\ Finish(Ok(scalar_arm(v)), <<"try_decode">>)

VoidArm ==
  /\ pc = "start"
  /\ ~is_null(v)
  /\ v.name = "VOID"
  /\ Finish(Ok(JNull), <<>>)

EnumArm ==
  /\ pc = "start"
  /\ ~is_null(v)
  /\ v.name \notin RecognizedNames
  /\ v.kind.tag = "Enum"
  /\ Finish(enum_arm(v), <<"as_bytes">>)

FallbackArm ==
  /\ pc = "start"
  /\ ~is_null(v)
  /\ v.name \notin RecognizedNames
  /\ v.kind.tag # "Enum"
  /\ Finish(fallback_arm(v), IF v.bytes.ok THEN <<"as_bytes", "try_decode">> ELSE <<"as_bytes">>)

\* ------------------------------------------- to_json: the tsvector arm
\* v.as_bytes().map_err(..)? and the entry of TsVector::try_from
TsvectorBytes ==
  /\ pc = "start"
  /\ ~is_null(v)
  /\ v.name = "tsvector"
  /\ calls' = Append(calls, "as_bytes")
  /\ IF v.bytes.ok
     THEN /\ pc' = "read_num_lexemes"
          /\ reader' = 0
          /\ words' = <<>>
          /\ res' = res
     ELSE /\ pc' = "done"
          /\ res' = Err("Decode", "")
          /\ UNCHANGED <<reader, words>>
  /\ UNCHANGED <<v, harness, num_lexemes, word, num_positions, positions, parsed, packed, meta>>

\* a `?` returns the error; the locals are dropped with the call
Fail(e) ==
  /\ parsed' = [ok |-> FALSE, err |-> e]
  /\ pc' = "returned"

ReadNumLexemes ==
  /\ pc = "read_num_lexemes"
  /\ LET r == read_u32(v.bytes.val, reader)
     IN  IF r.ok
         THEN /\ num_lexemes' = r.val
              /\ reader' = r.pos
              /\ pc' = "lexemes"
              /\ parsed' = parsed
         ELSE /\ Fail("UnexpectedEof")
              /\ UNCHANGED <<num_lexemes, reader>>
  /\ UNCHANGED <<v, harness, res, calls, words, word, num_positions, positions, packed, meta>>

\* read_until(0, ..), String::from_utf8(word)?, trim_end_matches('\0')
ReadWord ==
  /\ pc = "lexemes"
  /\ LessU32(Len(words), num_lexemes)
  /\ LET r == read_until(v.bytes.val, reader, 0)
         u == from_utf8(r.buf)
     IN  /\ reader' = r.pos
         /\ IF u.ok
            THEN /\ word' = trim_end_matches(u.s, 0)
                 /\ pc' = "read_num_positions"
                 /\ parsed' = parsed
            ELSE /\ Fail("FromUtf8Error")
                 /\ word' = word
  /\ UNCHANGED <<v, harness, res, calls, num_lexemes, words, num_positions, positions, packed, meta>>

ReadNumPositions ==
  /\ pc = "read_num_positions"
  /\ LET r == read_u16(v.bytes.val, reader)
     IN  IF r.ok
         THEN /\ num_positions' = r.val
              /\ positions' = <<>>
              /\ reader' = r.pos
              /\ pc' = "positions"
              /\ parsed' = parsed
         ELSE /\ Fail("UnexpectedEof")
              /\ UNCHANGED <<num_positions, positions, reader>>
  /\ UNCHANGED <<v, harness, res, calls, num_lexemes, words, word, packed, meta>>

ReadPosition ==
  /\ pc = "positions"
  /\ Len(positions) < num_positions
  /\ LET r == read_u16(v.bytes.val, reader)
     IN  IF r.ok
         THEN /\ packed' = r.val
              /\ meta' = LexemeMeta_from(r.val)
              /\ positions' = Append(positions, LexemeMeta_from(r.val))
              /\ reader' = r.pos
              /\ pc' = pc
              /\ parsed' = parsed
         ELSE /\ Fail("UnexpectedEof")
              /\ UNCHANGED <<packed, meta, positions, reader>>
  /\ UNCHANGED <<v, harness, res, calls, num_lexemes, words, word, num_positions>>

\* words.push(Lexeme { word, positions })
PushLexeme ==
  /\ pc = "positions"
  /\ Len(positions) = num_positions
  /\ words' = Append(words, [word |-> word, positions |-> positions])
  /\ pc' = "lexemes"
  /\ UNCHANGED <<v, harness, res, calls, reader, num_lexemes, word, num_positions, positions, parsed, packed, meta>>

\* Ok(Self { words })
TryFromOk ==
  /\ pc = "lexemes"
  /\ ~LessU32(Len(words), num_lexemes)
  /\ parsed' = [ok |-> TRUE, err |-> ""]
  /\ pc' = "returned"
  /\ UNCHANGED <<v, harness, res, calls, reader, num_lexemes, words, word, num_positions, positions, packed, meta>>

\* the words read so far rendered whether or not the parse succeeded
tsvector_result_partial(p, ws) == JString(to_string(ws))

tsvector_result(p, ws) == IF p.ok THEN JString(to_string(ws)) ELSE JNull

\* if let Ok(ts_vector) = .. { String(ts_vector.to_string()) } else { Null }
TsvectorResult ==
  /\ pc = "returned"
  /\ res' = Ok(tsvector_result(parsed, words))
  /\ pc' = "done"
  /\ UNCHANGED <<v, harness, calls, reader, num_lexemes, words, word, num_positions, positions, parsed, packed, meta>>

Next ==
  \/ NullValue
  \/ ScalarArm
  \/ VoidArm
  \/ EnumArm
  \/ FallbackArm
  \/ TsvectorBytes
  \/ ReadNumLexemes
  \/ ReadWord
  \/ ReadNumPositions
  \/ ReadPosition
  \/ PushLexeme
  \/ TryFromOk
  \/ TsvectorResult

Spec == Init /\ [][Next]_vars

\* ------------------------------------------- LexemeMeta::from on its own
InitUnpack ==
  /\ packed \in 0..65535
  /\ meta = LexemeMeta_from(0)
  /\ pc = "unpack"
  /\ v = TsValue(<<>>)
  /\ harness = NoVector
  /\ res = NoResult
  /\ calls = <<>>
  /\ reader = 0
  /\ num_lexemes = U32(0, 0)
  /\ words = <<>>
  /\ word = <<>>
  /\ num_positions = 0
  /\ positions = <<>>
  /\ parsed = NotParsed

Unpack ==
  /\ pc = "unpack"
  /\ meta' = LexemeMeta_from(packed)
  /\ pc' = "unpacked"
  /\ UNCHANGED <<v, harness, res, calls, reader, num_lexemes, words, word, num_positions, positions, parsed, packed>>

SpecUnpack == InitUnpack /\ [][Unpack]_vars

\* ===================================================================
\* Properties
\* ===================================================================
Unrecognized(x) ==
  x.name \notin { "CHAR", "VARCHAR", "TEXT", "NAME", "FLOAT4", "FLOAT8", "INT2", "INT4",
                  "INT8", "BOOL", "DATE", "TIME", "TIMESTAMP", "TIMESTAMPTZ", "JSON",
                  "JSONB", "BYTEA", "VOID", "tsvector" }

IsEnum(x) == x.kind.tag = "Enum"

ExtractionFails(x) == ~x.isNull /\ ~x.bytes.ok

IsOkNull(r) == r.ok /\ r.json.t = "Null"

\* C1: a finished call returns an error in exactly two cases: Decode when
\* raw-byte extraction fails on the tsvector path or the enum path, and
\* UnsupportedDatatype(type name) when it fails on the generic fallback path;
\* every other failure (typed decode, tsvector parse) ends in Ok(Null).
C1_ExactlyTwoErrors ==
  pc = "done" =>
    LET mandatory == v.name = "tsvector" \/ (Unrecognized(v) /\ IsEnum(v))
        fallback == Unrecognized(v) /\ ~IsEnum(v)
    IN  /\ (~res.ok /\ res.err = "Decode") <=> (ExtractionFails(v) /\ mandatory)
        /\ (~res.ok /\ res.err = "UnsupportedDatatype" /\ res.name = v.name)
             <=> (ExtractionFails(v) /\ fallback)
        /\ ~res.ok => res.err \in {"Decode", "UnsupportedDatatype"}
        /\ (~v.isNull /\ ~Unrecognized(v) /\ v.name \notin {"VOID", "tsvector"} /\ ~v.decode.ok)
             => IsOkNull(res)
        /\ (~v.isNull /\ fallback /\ v.bytes.ok /\ ~v.decode.ok) => IsOkNull(res)
        /\ (~v.isNull /\ v.name = "tsvector" /\ v.bytes.ok /\ ~parsed.ok) => IsOkNull(res)

C1_Witness ==
  /\ pc = "done"
  /\ v.name = "mood"
  /\ IsEnum(v)
  /\ ~v.bytes.ok
  /\ ~res.ok
  /\ res.err = "Decode"

\* C2: a null value gives Ok(Null) whatever its type name and kind, and the
\* call ends at the null check: no as_bytes, no try_decode, no parsing.
C2_NullFirst ==
  v.isNull =>
    /\ pc \in {"start", "done"}
    /\ calls = <<>>
    /\ pc = "done" => IsOkNull(res)

C2_Witness ==
  /\ pc = "done"
  /\ v.isNull
  /\ v.name = "tsvector"
  /\ ~v.bytes.ok
  /\ IsOkNull(res)

\* C3: for each of the seventeen decoded scalar names a failed typed decode of
\* a non-null value gives Ok(Null), and VOID gives Ok(Null) in every case.
C3_ScalarFailureIsNull ==
  pc = "done" =>
    /\ ( /\ ~v.isNull
         /\ v.name \in { "CHAR", "VARCHAR", "TEXT", "NAME", "FLOAT4", "FLOAT8", "INT2",
                         "INT4", "INT8", "BOOL", "DATE", "TIME", "TIMESTAMP",
                         "TIMESTAMPTZ", "JSON", "JSONB", "BYTEA" }
         /\ ~v.decode.ok ) => IsOkNull(res)
    /\ v.name = "VOID" => IsOkNull(res)

C3_Witness ==
  /\ pc = "done"
  /\ ~v.isNull
  /\ v.name = "TIMESTAMPTZ"
  /\ ~v.decode.ok
  /\ v.bytes.ok
  /\ IsOkNull(res)

\* the rendering the specification describes
RefWeight(m) ==
  CASE m.weight = 3 -> <<65>>
    [] m.weight = 2 -> <<66>>
    [] m.weight = 1 -> <<67>>
    [] OTHER -> <<>>

RECURSIVE RefPositions(_)
RefPositions(ps) ==
  IF Len(ps) = 0 THEN <<>>
  ELSE Decimal(ps[1].position) \o RefWeight(ps[1])
         \o (IF Len(ps) > 1 THEN <<44>> \o RefPositions(Tail(ps)) ELSE <<>>)

RefLexeme(l) ==
  <<39>> \o l.word \o <<39>>
    \o (IF Len(l.positions) = 0 THEN <<>> ELSE <<58>> \o RefPositions(l.positions))

RECURSIVE RefRender(_)
RefRender(vec) ==
  IF Len(vec) = 0 THEN <<>>
  ELSE RefLexeme(vec[1]) \o (IF Len(vec) > 1 THEN <<32>> \o RefRender(Tail(vec)) ELSE <<>>)

\* 'cat':1A,5
CatRendered == <<39, 99, 97, 116, 39, 58, 49, 65, 44, 53>>

\* C4: parsing and rendering an encoded vector gives the reference rendering:
\* lexemes in order joined by one space, 'word' or 'word':p1,p2,.. with the
\* weight letter A, B, C or nothing; "cat" at 1A and 5 renders as 'cat':1A,5.
C4_RenderIsReference ==
  (pc = "done" /\ harness.enc) =>
    /\ res.ok
    /\ res.json.t = "String"
    /\ res.json.val = RefRender(harness.vec)
    /\ harness.vec = <<Lex(<<99, 97, 116>>, <<Meta(3, 1), Meta(0, 5)>>)>>
         => res.json.val = CatRendered

RECURSIVE WellFormedLexemes(_, _, _)
\* n lexemes start after byte p: a word without 0x00 that is valid UTF-8, its
\* terminator, a 2-byte count k and k 2-byte entries; what follows is free
WellFormedLexemes(b, p, n) ==
  \/ n = 0
  \/ \E z \in (p + 1)..Len(b) :
       /\ b[z] = 0
       /\ \A i \in (p + 1)..(z - 1) : b[i] # 0
       /\ from_utf8(SubSeq(b, p + 1, z - 1)).ok
       /\ z + 2 <= Len(b)
       /\ LET k == b[z + 1] * 256 + b[z + 2]
          IN  /\ z + 2 + 2 * k <= Len(b)
              /\ WellFormedLexemes(b, z + 2 + 2 * k, n - 1)

\* the layout of a text-search vector; a count of 65536 or more cannot be
\* met by the inputs here, each lexeme taking three bytes at least
WellFormed(b) ==
  /\ Len(b) >= 4
  /\ b[1] = 0
  /\ b[2] = 0
  /\ WellFormedLexemes(b, 4, b[3] * 256 + b[4])

\* C5: on the tsvector path with bytes at hand, every input that is not a
\* well-formed vector (too short for the count, a word without terminator, a
\* missing count or entry, a count beyond the bytes, a word that is not
\* UTF-8) fails to parse and the call returns Ok(Null).
C5_MalformedIsNull ==
  (pc = "done" /\ ~v.isNull /\ v.name = "tsvector" /\ v.bytes.ok /\ ~WellFormed(v.bytes.val)) =>
    /\ ~parsed.ok
    /\ IsOkNull(res)

C5_Witness ==
  /\ pc = "done"
  /\ v.name = "tsvector"
  /\ v.bytes.ok
  /\ ~WellFormed(v.bytes.val)
  /\ Len(words) = 1
  /\ parsed.err = "FromUtf8Error"
  /\ IsOkNull(res)

\* C6: on the enum path with bytes at hand the result is String(s) exactly
\* when s, the lossy UTF-8 reading of the bytes, is a variant, and Null
\* otherwise; "green" among {red, green, blue} is kept, "purple" is not.
C6_EnumMembership ==
  (pc = "done" /\ ~v.isNull /\ Unrecognized(v) /\ IsEnum(v) /\ v.bytes.ok) =>
    LET s == from_utf8_lossy(v.bytes.val)
    IN  /\ res.ok
        /\ res.json.t \in {"String", "Null"}
        /\ res.json.t = "String" <=> s \in v.kind.variants
        /\ res.json.t = "String" => (res.json.val = s /\ res.json.val \in v.kind.variants)
        /\ (\A i \in 1..Len(v.bytes.val) : v.bytes.val[i] < 128) => s = v.bytes.val
        /\ (v.bytes.val = Green /\ v.kind.variants = Colors) => res.json = JString(Green)
        /\ v.bytes.val = Purple => res.json.t = "Null"

C6_Witness ==
  /\ pc = "done"
  /\ Unrecognized(v)
  /\ v.kind.variants = Colors
  /\ v.bytes.ok
  /\ v.bytes.val = Green
  /\ res.ok
  /\ res.json = JString(Green)

\* C7: on the generic fallback path a failed extraction returns
\* UnsupportedDatatype with the value's type name; otherwise the text decode
\* decides between String(s) and Null, and no error is returned.
C7_Fallback ==
  (pc = "done" /\ ~v.isNull /\ Unrecognized(v) /\ ~IsEnum(v)) =>
    IF ~v.bytes.ok
    THEN ~res.ok /\ res.err = "UnsupportedDatatype" /\ res.name = v.name
    ELSE /\ res.ok
         /\ v.decode.ok => (res.json.t = "String" /\ res.json.val = v.decode.val)
         /\ ~v.decode.ok => res.json.t = "Null"

C7_Witness ==
  /\ pc = "done"
  /\ v.name = "citext"
  /\ v.kind.tag = "Domain"
  /\ ~v.bytes.ok
  /\ ~res.ok
  /\ res.name = "citext"

ByteArray(x, r) ==
  /\ r.json.t = "Array"
  /\ x.name = "BYTEA"
  /\ Len(r.json.val) = Len(x.decode.val)
  /\ \A i \in 1..Len(r.json.val) : r.json.val[i] = x.decode.val[i] /\ r.json.val[i] \in 0..255

\* C8 as stated: every Ok value is null, bool, number, string or (BYTEA only)
\* the array of the bytes; no object, JSON and JSONB included.
C8_NoObjectEver ==
  (pc = "done" /\ res.ok) =>
    \/ res.json.t \in {"Null", "Bool", "Number", "String"}
    \/ ByteArray(v, res)

\* C8: for every name but JSON and JSONB an Ok value is null, bool, number,
\* string or (BYTEA only) the array of the decoded bytes in order; for JSON and
\* JSONB it is the decoded JSON value itself, of any variant, or Null when the
\* decode fails.
C8_ShapeByName ==
  (pc = "done" /\ res.ok) =>
    IF ~v.isNull /\ v.name \in {"JSON", "JSONB"}
    THEN IF v.decode.ok
         THEN res.json.t = v.decode.ty /\ res.json.val = v.decode.val
         ELSE res.json.t = "Null"
    ELSE /\ \/ res.json.t \in {"Null", "Bool", "Number", "String"}
            \/ ByteArray(v, res)
         /\ (~v.isNull /\ v.name = "BYTEA" /\ v.decode.ok) => ByteArray(v, res)

C8_Witness ==
  /\ pc = "done"
  /\ v.name = "JSONB"
  /\ ~v.isNull
  /\ v.decode.ok
  /\ v.decode.ty = "Object"
  /\ res.ok
  /\ res.json.t = "Object"
  /\ res.json.val = v.decode.val

\* C9: unpacking a 16-bit value gives a weight in 0..3 and a position in
\* 0..16383 with weight * 16384 + position equal to the packed value.
C9_UnpackLossless ==
  pc = "unpacked" =>
    /\ meta.weight \in 0..3
    /\ meta.position \in 0..16383
    /\ meta.weight * 16384 + meta.position = packed

C9_Witness ==
  /\ pc = "unpacked"
  /\ packed = 49153
  /\ meta.weight = 3
  /\ meta.position = 1

\* what a successful parse leaves behind
ParsedShape ==
  parsed.ok =>
    /\ num_lexemes.hi = 0
    /\ Len(words) = num_lexemes.lo
    /\ \A k \in 1..Len(words) : \A i \in 1..Len(words[k].word) : words[k].word[i] # 0
    /\ reader <= Len(v.bytes.val)
    /\ (Len(v.bytes.val) >= 4 /\ SubSeq(v.bytes.val, 1, 4) = <<0, 0, 0, 0>>) => words = <<>>
    /\ harness.enc =>
         /\ words = harness.vec
         /\ reader = Len(Encode(harness.vec))

\* every lexeme is pushed with exactly the entries its count declared
PushedShape ==
  (pc = "lexemes" /\ Len(words) > 0) =>
    /\ Len(words[Len(words)].positions) = num_positions
    /\ words[Len(words)].positions = positions

\* an encoded vector parses, with or without bytes after it, and so does
\* every input that starts with a zero lexeme count
ParseSucceeds ==
  ( /\ pc \in {"returned", "done"}
    /\ \/ harness.enc
       \/ ~v.isNull /\ v.name = "tsvector" /\ v.bytes.ok /\ Len(v.bytes.val) >= 4
            /\ SubSeq(v.bytes.val, 1, 4) = <<0, 0, 0, 0>> ) => parsed.ok

\* C10: a successful parse holds exactly lexeme_count lexemes in stream order,
\* each with its declared number of entries in stream order and a word free
\* of 0x00; the cursor only moves forward and bytes after the last lexeme are
\* ignored; a zero lexeme count parses to the empty vector.
C10_ParseShape ==
  /\ [](ParsedShape /\ PushedShape /\ ParseSucceeds)
  /\ [][reader' >= reader]_vars

C10_Witness ==
  /\ pc = "done"
  /\ parsed.ok
  /\ harness.enc
  /\ Len(harness.vec) = 2
  /\ harness.vec[1].word = <<97>>
  /\ harness.vec[2].word = <<99, 97, 116>>
  /\ Len(v.bytes.val) > reader
  /\ words = harness.vec

====
